---- MODULE Spec2Model ----
(***************************************************************************)
(* The POST /deploy-token handler of the token deployment service, in its  *)
(* three iterations: src/server.js ("server"), src/unnamed/part_000        *)
(* ("part_000", the fast iteration with a detached factory activation and  *)
(* timeout races) and src/unnamed/part_001 ("part_001", the iteration with *)
(* receipt polling, token code check and a traced simulation).             *)
(*                                                                         *)
(* One request is followed from its arrival to its response.  An action is *)
(* what the handler does between two suspension points: the completion of  *)
(* the awaited command (or timer), everything the async function then runs *)
(* synchronously, and the start of the next command.  Texts are sequences  *)
(* of one-character strings, so that String.prototype.includes and the     *)
(* address regular expression are computed as the code computes them.      *)
(***************************************************************************)
EXTENDS Integers, Sequences, FiniteSets, TLC

(* ------------------------------ texts --------------------------------- *)

Empty == <<>>

NL == <<"\n">>

\* the character class without its upper-case range
HexDigitsLower ==
    {"0","1","2","3","4","5","6","7","8","9","a","b","c","d","e","f"}

HexDigits ==
    {"0","1","2","3","4","5","6","7","8","9",
     "a","b","c","d","e","f","A","B","C","D","E","F"}

DecDigits == {"0","1","2","3","4","5","6","7","8","9"}

\* number of hex digits of an address in /(0x[a-fA-F0-9]{40})/
AddrHexLen == 40

\* number of hex digits of a transaction hash in /0x[a-fA-F0-9]{64}/
TxHashHexLen == 64

\* BigInt(10) ** BigInt(18)
Decimals == 18

\* largest power of ten among the whole-unit supplies of the requests
MaxSupplyExp == 3

\* largest number of pieces a deploy output is put together from
MaxPieces == 3

\* largest number of pieces a name is put together from
MaxNamePieces == 2

Rep(c, n) == [i \in 1..n |-> c]

\* String.prototype.includes
Includes(text, pat) ==
    \E i \in 0..(Len(text) - Len(pat)) : SubSeq(text, i + 1, i + Len(pat)) = pat

\* text.match(/0x[a-fA-F0-9]{n}/) succeeds at position i
HexTokenAt(text, i, n) ==
    /\ i + 1 + n <= Len(text)
    /\ text[i] = "0"
    /\ text[i + 1] = "x"
    /\ \A k \in 2..(n + 1) : text[i + k] \in HexDigits

\* the first match of /0x[a-fA-F0-9]{n}/ in text, Empty (null) when none
FirstHexToken(text, n) ==
    LET at == {i \in 1..Len(text) : HexTokenAt(text, i, n)}
    IN  IF at = {} THEN Empty
        ELSE LET m == CHOOSE i \in at : \A j \in at : i <= j
             IN  SubSeq(text, m, m + 1 + n)

\* the regular expression with one hex digit too few
ExtractShort(output) == FirstHexToken(output, AddrHexLen - 1)

extractContractAddress(output) == FirstHexToken(output, AddrHexLen)

\* initOutput.match(/0x[a-fA-F0-9]{64}/)
txHashMatch(output) == FirstHexToken(output, TxHashHexLen)

WhiteSpace == {" ", "\n", "\t"}

\* String.prototype.trim
RECURSIVE TrimLeft(_)
TrimLeft(s) ==
    IF s # Empty /\ Head(s) \in WhiteSpace THEN TrimLeft(Tail(s)) ELSE s

RECURSIVE TrimRight(_)
TrimRight(s) ==
    IF s # Empty /\ s[Len(s)] \in WhiteSpace
    THEN TrimRight(SubSeq(s, 1, Len(s) - 1))
    ELSE s

Trim(s) == TrimRight(TrimLeft(s))

FACTORY_ADDRESS ==
    <<"0","x","e","d","0","8","8","f","d","9","3","5","1","7","b","0","d","0","c","3","a","3","e","4","d","2","e","2","c","4","1","9","f","b","5","8","5","7","0","5","5","6">>

ScenarioAddress ==
    <<"0","x","A","b","C","d","E","f","0","1","2","3","4","5","6","7","8","9","a","b","c","d","e","f","0","1","2","3","4","5","6","7","8","9","A","B","C","D","E","F","0","1">>

ZeroAddress == <<"0","x">> \o Rep("0", AddrHexLen)

\* the address a second deployment gets
OtherAddress == <<"0","x">> \o Rep("3", AddrHexLen)

BodyFactory == <<"0","x">> \o Rep("1", AddrHexLen)

EnvFactory == <<"0","x">> \o Rep("2", AddrHexLen)

ProgramUpToDate ==
    <<"P","r","o","g","r","a","m","U","p","T","o","D","a","t","e">>

AlreadyActivated ==
    <<"a","l","r","e","a","d","y"," ","a","c","t","i","v","a","t","e","d">>

AlreadyUpToDate ==
    <<"a","l","r","e","a","d","y"," ","u","p"," ","t","o"," ","d","a","t","e">>

AlreadyCached ==
    <<"a","l","r","e","a","d","y"," ","c","a","c","h","e","d">>

TokenNotFound ==
    <<"T","o","k","e","n","N","o","t","F","o","u","n","d">>

ErrorWord == <<"e","r","r","o","r">>

ExecutionReverted ==
    <<"e","x","e","c","u","t","i","o","n"," ","r","e","v","e","r","t","e","d">>

AlreadyRegistered ==
    <<"a","l","r","e","a","d","y"," ","r","e","g","i","s","t","e","r","e","d">>

(* --------------------------- JavaScript values ------------------------ *)

\* A request field or environment variable: undefined, a string, or a number
\* (a number is kept as the text String(n) gives).
Undefined == [t |-> "undef", s |-> Empty]

Str(s) == [t |-> "str", s |-> s]

Num(s) == [t |-> "num", s |-> s]

\* !v
Falsy(v) ==
    \/ v.t = "undef"
    \/ v.t = "str" /\ v.s = Empty
    \/ v.t = "num" /\ v.s = <<"0">>

\* `${v}`
Interpolate(v) == v.s

IsDigits(s) == s # Empty /\ \A i \in 1..Len(s) : s[i] \in DecDigits

RECURSIVE StripZeros(_)
StripZeros(s) ==
    IF Len(s) > 1 /\ Head(s) = "0" THEN StripZeros(Tail(s)) ELSE s

(* A whole number is a decimal text; a JavaScript number holding one is the *)
(* nearest IEEE 754 double, computed here digit by digit.                   *)

Digit(v) == <<"0","1","2","3","4","5","6","7","8","9">>[v + 1]

DigitValue(c) == CHOOSE v \in 0..9 : Digit(v) = c

RECURSIVE PlusOne(_)
PlusOne(s) ==
    IF s = Empty THEN <<"1">>
    ELSE IF s[Len(s)] = "9" THEN PlusOne(SubSeq(s, 1, Len(s) - 1)) \o <<"0">>
    ELSE SubSeq(s, 1, Len(s) - 1) \o <<Digit(DigitValue(s[Len(s)]) + 1)>>

\* the whole number the nearest double to n holds: n is halved until it fits
\* the 53 bits of a double's significand, then rounded to nearest, ties to
\* even, and scaled back
NearestDouble(n) ==
    LET \* floor(s / 2), from the left with the remainder carried
        RECURSIVE HalfFrom(_, _)
        HalfFrom(s, carry) ==
            IF s = Empty THEN Empty
            ELSE LET d == carry * 10 + DigitValue(Head(s))
                 IN  <<Digit(d \div 2)>> \o HalfFrom(Tail(s), d % 2)
        Half(s) == StripZeros(HalfFrom(s, 0))
        Odd(s) == DigitValue(s[Len(s)]) % 2 = 1
        \* 2 * s, from the right with the carry
        RECURSIVE TwiceFrom(_, _)
        TwiceFrom(s, carry) ==
            IF s = Empty THEN (IF carry = 0 THEN Empty ELSE <<"1">>)
            ELSE LET d == 2 * DigitValue(s[Len(s)]) + carry
                 IN  TwiceFrom(SubSeq(s, 1, Len(s) - 1), d \div 10)
                        \o <<Digit(d % 10)>>
        RECURSIVE TimesTwoTo(_, _)
        TimesTwoTo(s, e) ==
            IF e = 0 THEN s ELSE TimesTwoTo(TwiceFrom(s, 0), e - 1)
        \* a < b for texts without leading zeros
        Less(a, b) ==
            \/ Len(a) < Len(b)
            \/ /\ Len(a) = Len(b)
               /\ \E i \in 1..Len(a) :
                     /\ \A k \in 1..(i - 1) : a[k] = b[k]
                     /\ DigitValue(a[i]) < DigitValue(b[i])
        \* 2^53
        TwoTo53 ==
            <<"9","0","0","7","1","9","9","2","5","4","7","4","0","9","9","2">>
        RECURSIVE RoundShift(_, _, _, _)
        RoundShift(s, e, round, sticky) ==
            IF Less(s, TwoTo53)
            THEN TimesTwoTo(IF round /\ (sticky \/ Odd(s)) THEN PlusOne(s)
                            ELSE s, e)
            ELSE RoundShift(Half(s), e + 1, Odd(s), sticky \/ round)
    IN  RoundShift(StripZeros(n), 0, FALSE, FALSE)

\* String(x) for a double x holding the whole number n < 10^21: the fewest
\* significant digits that read back as x
NumberText(n) ==
    LET \* n rounded to d significant digits
        RoundDecimal(d) ==
            IF d >= Len(n) THEN n
            ELSE (IF DigitValue(n[d + 1]) >= 5 THEN PlusOne(SubSeq(n, 1, d))
                  ELSE SubSeq(n, 1, d)) \o Rep("0", Len(n) - d)
        ds == {d \in 1..Len(n) : NearestDouble(RoundDecimal(d)) = n}
    IN  RoundDecimal(CHOOSE d \in ds : \A k \in ds : d <= k)

\* BigInt(v): [ok, neg, digits]; ok is FALSE where BigInt throws (a RangeError
\* for a number that is not an integer, a SyntaxError for a string that is no
\* integer literal).  BigInt("") is 0n.  BigInt of a number is the whole
\* number the double holds.
ToBigInt(v) ==
    LET body == IF v.t = "str" THEN Trim(v.s) ELSE v.s
        neg  == body # Empty /\ Head(body) = "-"
        mag  == IF neg THEN Tail(body) ELSE body
    IN  IF v.t = "str" /\ body = Empty
        THEN [ok |-> TRUE, neg |-> FALSE, digits |-> <<"0">>]
        ELSE IF v.t # "undef" /\ IsDigits(mag)
        THEN [ok |-> TRUE,
              neg |-> neg /\ StripZeros(mag) # <<"0">>,
              digits |-> IF v.t = "num" THEN NearestDouble(mag)
                         ELSE StripZeros(mag)]
        ELSE [ok |-> FALSE, neg |-> FALSE, digits |-> Empty]

\* b * 10^k in exact decimal arithmetic
TimesPow10(b, k) ==
    IF b.digits = <<"0">> THEN b
    ELSE [b EXCEPT !.digits = b.digits \o Rep("0", k)]

\* `${bigint}`
BigIntText(b) == IF b.neg THEN <<"-">> \o b.digits ELSE b.digits

RawSupply(initialSupply) ==
    [ok |-> TRUE, text |-> Interpolate(initialSupply)]

\* BigInt(initialSupply) * BigInt(10) ** BigInt(18)
initialSupplyWei(initialSupply) ==
    LET b == ToBigInt(initialSupply)
    IN  [ok |-> b.ok,
         text |-> IF b.ok THEN BigIntText(TimesPow10(b, Decimals)) ELSE Empty]

(* ------------------------------ requests ------------------------------ *)

Variants == {"server", "part_000", "part_001"}

Names == {Undefined, Str(Empty), Str(<<" ">>), Str(<<"T","e","s","t">>)}

Symbols == {Undefined, Str(Empty), Str(<<"T","S","T">>)}

\* 10^k as a decimal text
Pow10Text(k) == <<"1">> \o Rep("0", k)

\* A value of the JSON body as it is written: absent, a string, or a number
\* literal.
Literal(j, text) == [j |-> j, text |-> text]

\* what express.json() hands the handler for a literal: a numeral becomes the
\* nearest double (the numerals -5 and 1.5 are doubles that print as written)
JsonValue(l) ==
    IF l.j = "absent" THEN Undefined
    ELSE IF l.j = "string" THEN Str(l.text)
    ELSE IF IsDigits(l.text) THEN Num(NumberText(NearestDouble(l.text)))
    ELSE Num(l.text)

\* The supplies a request writes: none, zero, empty, a fraction, a negative
\* number, a small whole number, 2^53 + 1 and 10^20, as numerals and strings.

SupplyLiterals ==
    LET \* 2^53 + 1, the first whole number no double holds
        TwoTo53PlusOne ==
            <<"9","0","0","7","1","9","9","2","5","4","7","4","0","9","9","3">>
    IN  {Literal("absent", Empty), Literal("string", Empty),
         Literal("number", <<"1",".","5">>), Literal("number", <<"-","5">>)}
        \cup
        {Literal(j, t) :
            j \in {"number", "string"},
            t \in {<<"0">>, Pow10Text(MaxSupplyExp), TwoTo53PlusOne,
                   Pow10Text(20)}}

\* req.body.initialSupply for each literal
Parsed == [l \in SupplyLiterals |-> JsonValue(l)]

Supplies == {Parsed[l] : l \in SupplyLiterals}

BodyFactories == {Undefined, Str(Empty), Str(BodyFactory)}

EnvSecrets == {Undefined, Str(<<"k">>)}

EnvFactories == {Undefined, Str(Empty), Str(EnvFactory)}

\* the request of the scenarios: {name: "Test", symbol: "TST", initialSupply: 1000}
ScenarioRequest ==
    [name |-> Str(<<"T","e","s","t">>), symbol |-> Str(<<"T","S","T">>),
     initialSupply |-> Num(Pow10Text(MaxSupplyExp)),
     factoryAddress |-> Undefined]

\* Every name, symbol, supply and secret with no factory address given, and
\* the scenario request with every factory address in the body and in the
\* environment.
Arrivals ==
    ([name : Names, symbol : Symbols, initialSupply : Supplies,
      factoryAddress : {Undefined}]
     \X [PRIVATE_KEY : EnvSecrets, RPC_ENDPOINT : EnvSecrets,
         FACTORY_ADDRESS : {Undefined}])
    \cup
    ({[ScenarioRequest EXCEPT !.factoryAddress = f] : f \in BodyFactories}
     \X [PRIVATE_KEY : {Str(<<"k">>)}, RPC_ENDPOINT : {Str(<<"k">>)},
         FACTORY_ADDRESS : EnvFactories])

(* ------------------------- commands and outcomes ---------------------- *)

\* The command line of one step, by its step and the arguments interpolated
\* into it.
Cmd(step, target, token, name, symbol, qty) ==
    [step |-> step, target |-> target, token |-> token,
     name |-> name, symbol |-> symbol, qty |-> qty]

deployCmd == Cmd("deploy", Empty, Empty, Empty, Empty, Empty)

activateCmd(addr) == Cmd("activate", addr, Empty, Empty, Empty, Empty)

cacheCmd(addr) == Cmd("cacheBid", addr, Empty, Empty, Empty, <<"1">>)

initCmd(addr, r) ==
    Cmd("init", addr, Empty, Interpolate(r.name), Interpolate(r.symbol),
        Interpolate(r.initialSupply))

receiptCmd(txHash) == Cmd("receipt", txHash, Empty, Empty, Empty, Empty)

factoryActivateCmd(factory) ==
    Cmd("factoryActivate", factory, Empty, Empty, Empty, Empty)

codeCheckCmd(factory) == Cmd("codeCheck", factory, Empty, Empty, Empty, Empty)

testCallCmd(factory) == Cmd("testCall", factory, Empty, Empty, Empty, Empty)

checkTokenCmd(factory, addr) ==
    Cmd("checkToken", factory, addr, Empty, Empty, Empty)

tokenCheckCmd(addr) == Cmd("tokenCheck", addr, Empty, Empty, Empty, Empty)

simulateCmd(factory, addr, r, qty) ==
    Cmd("simulate", factory, addr, Interpolate(r.name), Interpolate(r.symbol),
        qty)

\* register_token sent with the factory and the token in each other's place
registerCmdSwapped(factory, addr, r, qty) ==
    Cmd("register", addr, factory, Interpolate(r.name), Interpolate(r.symbol),
        qty)

registerCmd(factory, addr, r, qty) ==
    Cmd("register", factory, addr, Interpolate(r.name), Interpolate(r.symbol),
        qty)

\* What exec hands to runCommand's callback: resolve({stdout, stderr}) when
\* error is null, reject({error, stdout, stderr}) otherwise.
Outcome(ok, stdout, stderr) == [ok |-> ok, stdout |-> stdout, stderr |-> stderr]

Result(stdout, stderr) == [stdout |-> stdout, stderr |-> stderr]

NoResult == Result(Empty, Empty)

\* `${r.stdout}\n${r.stderr}`
Combined(r) == r.stdout \o NL \o r.stderr

TxHashText == <<"0","x">> \o Rep("a", TxHashHexLen)

ShortHexText == <<"0","x">> \o Rep("b", AddrHexLen - 1)

CodeText == <<"0","x","6","0","8","0">>

DeployOutcomes ==
    { Outcome(TRUE, <<"a","t"," ">> \o ScenarioAddress, Empty),
      Outcome(TRUE, <<"a","t"," ">> \o OtherAddress, Empty),
      Outcome(TRUE, ZeroAddress, Empty),
      Outcome(TRUE, <<"t","x"," ">> \o TxHashText, <<"a","t"," ">> \o ScenarioAddress),
      Outcome(TRUE, ShortHexText, Empty),
      Outcome(TRUE, <<"d","o","n","e">>, Empty),
      Outcome(FALSE, Empty, ErrorWord) }

ActivateOutcomes ==
    { Outcome(TRUE, <<"o","k">>, Empty),
      Outcome(FALSE, <<"o","k">>, ProgramUpToDate \o <<"(",")">>),
      Outcome(FALSE, Empty, AlreadyActivated),
      Outcome(FALSE, Empty, AlreadyUpToDate),
      Outcome(FALSE, ProgramUpToDate, Empty),
      Outcome(FALSE, Empty, ErrorWord) }

CacheOutcomes ==
    { Outcome(TRUE, <<"o","k">>, Empty),
      Outcome(FALSE, <<"o","k">>, <<"i","s"," ">> \o AlreadyCached),
      Outcome(FALSE, AlreadyCached, Empty),
      Outcome(FALSE, Empty, ErrorWord) }

InitOutcomes ==
    { Outcome(TRUE, TxHashText, Empty),
      Outcome(TRUE, <<"o","k">>, Empty),
      Outcome(FALSE, Empty, ExecutionReverted) }

PlainOutcomes ==
    { Outcome(TRUE, <<"o","k">>, Empty),
      Outcome(FALSE, Empty, ErrorWord) }

FactoryActivateOutcomes ==
    PlainOutcomes \cup { Outcome(FALSE, Empty, AlreadyActivated) }

CodeOutcomes ==
    { Outcome(TRUE, CodeText, Empty),
      Outcome(TRUE, <<"0","x">>, Empty),
      Outcome(TRUE, Empty, Empty),
      Outcome(FALSE, Empty, ErrorWord) }

CheckTokenOutcomes ==
    { Outcome(TRUE, CodeText, Empty),
      Outcome(TRUE, Empty, TokenNotFound),
      Outcome(TRUE, ErrorWord, Empty),
      Outcome(FALSE, Empty, TokenNotFound) }

RegisterOutcomes ==
    { Outcome(TRUE, TxHashText, Empty),
      Outcome(FALSE, Empty, ExecutionReverted),
      Outcome(FALSE, Empty, Empty) }

(* ------------------------- errors and responses ----------------------- *)

CommandFailed ==
    <<"C","o","m","m","a","n","d"," ","f","a","i","l","e","d">>

ErrorPrefix ==
    <<"E","r","r","o","r",":"," ">>

MsgVerifyA ==
    <<"F","a","c","t","o","r","y"," ","c","o","n","t","r","a","c","t"," ","v","e","r","i","f","i","c","a","t","i","o","n"," ","f","a","i","l","e","d"," ","a","t"," ">>

MsgTokVerifyA ==
    <<"T","o","k","e","n"," ","c","o","n","t","r","a","c","t"," ","v","e","r","i","f","i","c","a","t","i","o","n"," ","f","a","i","l","e","d",":"," ">>

MsgRegFailed ==
    <<"T","o","k","e","n"," ","r","e","g","i","s","t","r","a","t","i","o","n"," ","F","A","I","L","E","D"," ","(","r","e","q","u","i","r","e","d"," ","s","t","e","p",")","."," ","F","a","c","t","o","r","y",":"," ">>

MsgFactoryRequired ==
    <<"f","a","c","t","o","r","y","A","d","d","r","e","s","s"," ","i","s"," ","r","e","q","u","i","r","e","d"," ","f","o","r"," ","t","o","k","e","n"," ","r","e","g","i","s","t","r","a","t","i","o","n">>

MsgRegTimeout ==
    <<"R","e","g","i","s","t","r","a","t","i","o","n"," ","t","i","m","e","o","u","t"," ","a","f","t","e","r"," ","6","0"," ","s","e","c","o","n","d","s">>

\* The value runCommand rejects with: {error, stdout, stderr}.
Reject(o) ==
    [kind |-> "reject", message |-> CommandFailed,
     stdout |-> o.stdout, stderr |-> o.stderr]

\* new Error(message)
Error(message) ==
    [kind |-> "Error", message |-> message, stdout |-> Empty, stderr |-> Empty]

\* err.message || err.stderr || err.stdout, interpolated
MessageOrStreams(e) ==
    LET UndefinedText == <<"u","n","d","e","f","i","n","e","d">>
    IN
    IF e.kind = "Error" /\ e.message # Empty THEN e.message
    ELSE IF e.stderr # Empty THEN e.stderr
    ELSE IF e.stdout # Empty THEN e.stdout
    ELSE UndefinedText

NoResponse == [status |-> 0]

ValidationResponse ==
    [status |-> 400, error |-> "name, symbol and initialSupply are required"]

SecretsResponse ==
    [status |-> 500,
     error |-> "PRIVATE_KEY and RPC_ENDPOINT must be set as environment variables"]

\* the parse failure sent through the outer catch
ParseFailureThrown(deployOutput) ==
    [status |-> 500,
     error |-> "Deployment flow failed",
     details |-> [message |-> deployOutput, streams |-> FALSE,
                  stdout |-> Empty, stderr |-> Empty]]

ParseFailureResponse(deployOutput) ==
    [status |-> 500,
     error |-> "Failed to parse deployed token contract address from deploy output",
     deployOutput |-> deployOutput]

\* the outer catch: err.error ? err.error.message : String(err)
FailureResponse(e) ==
    [status |-> 500,
     error |-> "Deployment flow failed",
     details |->
        [message |-> IF e.kind = "reject" THEN e.message
                     ELSE IF e.kind = "Error" THEN ErrorPrefix \o e.message
                     ELSE e.message,
         streams |-> e.kind = "reject",
         stdout |-> e.stdout,
         stderr |-> e.stderr]]

SuccessResponse(addr, out) ==
    [status |-> 200,
     tokenAddress |-> addr,
     deployOutput |-> out.deployOutput,
     activateOutput |-> Combined(out.activateResult),
     cacheOutput |-> Combined(out.cacheResult),
     initOutput |-> Combined(out.initResult),
     registerOutput |-> Combined(out.registerResult),
     success |-> TRUE,
     message |-> "Token deployed and registered successfully"]

NoOutputs ==
    [deployOutput |-> Empty, activateResult |-> NoResult,
     cacheResult |-> NoResult, initResult |-> NoResult,
     registerResult |-> NoResult]

VARIABLES
    variant,        \* which iteration of the handler serves the request
    wire,           \* initialSupply as the request's JSON body writes it
    req,            \* req.body: name, symbol, initialSupply, factoryAddress
    env,            \* process.env: PRIVATE_KEY, RPC_ENDPOINT, FACTORY_ADDRESS
    pc,             \* the suspension point of the handler
    factoryAddress, \* the handler's local factoryAddress
    tokenAddress,   \* the handler's local tokenAddress
    log,            \* the commands handed to runCommand, in order
    running,        \* indices (in log) of the commands not yet completed
    awaiting,       \* index of the command the handler awaits, 0 if none
    outputs,        \* deploy/activate/cache/init/register results kept
    simulationError, \* part_001's simulationError
    last,           \* the step and outcome last handed to the handler
    observed,       \* index in log -> how that command ended, as the handler saw it
    response,       \* the HTTP response sent, if any
    sent,           \* how many times res.json was called for the request
    other           \* a second request in the same process, while the first runs

vars ==
    <<variant, wire, req, env, pc, factoryAddress, tokenAddress, log, running,
      awaiting, outputs, simulationError, last, observed, response, sent,
      other>>

\* no second request
Alone == [pc |-> "none"]

(* ---------------------------- handler steps --------------------------- *)

\* the command the handler awaits has completed
Finished == running \ {awaiting}

\* The handler hands cmds to runCommand and suspends on the last of them.
Begin(run, cmds, next) ==
    /\ log' = log \o cmds
    /\ running' = run \cup ((Len(log) + 1)..(Len(log) + Len(cmds)))
    /\ awaiting' = Len(log) + Len(cmds)
    /\ pc' = next
    /\ response' = response
    /\ sent' = sent

\* The handler suspends on a timer alone.
Pause(run, next) ==
    /\ log' = log
    /\ running' = run
    /\ awaiting' = 0
    /\ pc' = next
    /\ response' = response
    /\ sent' = sent

\* res.status(..).json(..): the handler returns.
End(run, r) ==
    /\ log' = log
    /\ running' = run
    /\ awaiting' = 0
    /\ pc' = "done"
    /\ response' = r
    /\ sent' = sent + 1

\* how a command ended: "failed" on a non-zero exit, "nocode" for a code read
\* that printed nothing or bare 0x, "ok" otherwise
ExitClass(step, o) ==
    IF ~o.ok THEN "failed"
    ELSE IF step \in {"codeCheck", "tokenCheck"}
            /\ (Trim(Combined(o)) = Empty \/ Trim(Combined(o)) = <<"0","x">>)
    THEN "nocode"
    ELSE "ok"

\* exec's callback hands outcome o of the awaited command to the handler
Observe(step, o) ==
    /\ last' = [step |-> step, outcome |-> o]
    /\ observed' = observed @@ (awaiting :> ExitClass(step, o))

\* a throw that reaches the outer catch
Fail(run, e) == End(run, FailureResponse(e))

\* the validation without its symbol test
InvalidNoSymbol(r) == Falsy(r.name) \/ Falsy(r.initialSupply)

\* !name || !symbol || !initialSupply
Invalid(r) == Falsy(r.name) \/ Falsy(r.symbol) \/ Falsy(r.initialSupply)

\* the secrets check without its RPC_ENDPOINT test
SecretsMissingKeyOnly(e) == Falsy(e.PRIVATE_KEY)

\* !process.env.PRIVATE_KEY || !process.env.RPC_ENDPOINT
SecretsMissing(e) == Falsy(e.PRIVATE_KEY) \/ Falsy(e.RPC_ENDPOINT)

\* the resolution with the environment ahead of the request
ResolveFactoryEnvFirst(r, e) ==
    IF ~Falsy(e.FACTORY_ADDRESS) THEN Interpolate(e.FACTORY_ADDRESS)
    ELSE IF ~Falsy(r.factoryAddress) THEN Interpolate(r.factoryAddress)
    ELSE FACTORY_ADDRESS

\* explicit body param > env var > hardcoded default
ResolveFactory(r, e) ==
    IF ~Falsy(r.factoryAddress) THEN Interpolate(r.factoryAddress)
    ELSE IF ~Falsy(e.FACTORY_ADDRESS) THEN Interpolate(e.FACTORY_ADDRESS)
    ELSE FACTORY_ADDRESS

\* the activation catch without its rethrow
ActivateBenignAlways(stderr) == TRUE

\* stderr.includes("ProgramUpToDate") in the token activation catch
ActivateBenign(stderr) == Includes(stderr, ProgramUpToDate)

\* the cache-bid catch comparing with === where it should search
CacheBenignExact(stderr) == stderr = AlreadyCached

\* stderr.includes("already cached") in the cache-bid catch
CacheBenign(stderr) == Includes(stderr, AlreadyCached)

\* an absorbed failure recorded with nothing at all
BenignResultEmpty(stderr) == NoResult

\* activateResult = { stdout: "", stderr } (and cacheResult alike)
BenignResult(stderr) == Result(Empty, stderr)

\* !codeOutput || codeOutput === "0x" || codeOutput.length <= 2
NoCode(codeOutput) ==
    codeOutput = Empty \/ codeOutput = <<"0","x">> \/ Len(codeOutput) <= 2

\* the parameter checks before registration; Empty when all pass
ParamError(addr, r) ==
    LET MsgZeroAddress == <<"I","n","v","a","l","i","d"," ","t","o","k","e","n"," ","a","d","d","r","e","s","s",":"," ","c","a","n","n","o","t"," ","b","e"," ","z","e","r","o"," ","a","d","d","r","e","s","s">>
        MsgEmptyName == <<"I","n","v","a","l","i","d"," ","n","a","m","e",":"," ","c","a","n","n","o","t"," ","b","e"," ","e","m","p","t","y">>
        MsgEmptySymbol == <<"I","n","v","a","l","i","d"," ","s","y","m","b","o","l",":"," ","c","a","n","n","o","t"," ","b","e"," ","e","m","p","t","y">>
        MsgZeroSupply == <<"I","n","v","a","l","i","d"," ","i","n","i","t","i","a","l"," ","s","u","p","p","l","y",":"," ","c","a","n","n","o","t"," ","b","e"," ","z","e","r","o">>
    IN
    IF addr = Empty \/ addr = ZeroAddress THEN MsgZeroAddress
    ELSE IF Falsy(r.name) \/ Len(Trim(r.name.s)) = 0 THEN MsgEmptyName
    ELSE IF Falsy(r.symbol) \/ Len(Trim(r.symbol.s)) = 0 THEN MsgEmptySymbol
    ELSE IF Falsy(r.initialSupply) THEN MsgZeroSupply
    ELSE Empty

\* what BigInt(initialSupply) throws
BigIntError(v) ==
    LET SyntaxErrorText == <<"S","y","n","t","a","x","E","r","r","o","r",":"," ","C","a","n","n","o","t"," ","c","o","n","v","e","r","t"," ","t","o"," ","a"," ","B","i","g","I","n","t">>
        RangeErrorText == <<"R","a","n","g","e","E","r","r","o","r",":"," ","c","a","n","n","o","t"," ","b","e"," ","c","o","n","v","e","r","t","e","d"," ","t","o"," ","a"," ","B","i","g","I","n","t"," ","b","e","c","a","u","s","e"," ","i","t"," ","i","s"," ","n","o","t"," ","a","n"," ","i","n","t","e","g","e","r">>
    IN
    [kind |-> IF v.t = "num" THEN "RangeError" ELSE "SyntaxError",
     message |-> IF v.t = "num" THEN RangeErrorText ELSE SyntaxErrorText,
     stdout |-> Empty, stderr |-> Empty]

\* the quantity interpolated into the register_token send
RegisterQuantity(v, initialSupply) ==
    IF v = "server" THEN RawSupply(initialSupply)
    ELSE initialSupplyWei(initialSupply)

\* the Error thrown from the catch around the register_token send
\* the registration failure without what the command printed
RegistrationErrorBare(v, factory, addr, r, e, simErr) == Error(MsgRegFailed)

RegistrationError(v, factory, addr, r, e, simErr) ==
    LET MsgRegToken == <<","," ","T","o","k","e","n",":"," ">>
        MsgRegName == <<","," ","N","a","m","e",":"," ","\"">>
        MsgRegSymbol == <<"\"",","," ","S","y","m","b","o","l",":"," ","\"">>
        MsgRegSupply == <<"\"",","," ","S","u","p","p","l","y",":"," ">>
        MsgRegError == <<"."," ","E","r","r","o","r",":"," ">>
        MsgRegDecoded == <<"."," ","D","e","c","o","d","e","d",":"," ">>
        MsgRegDetails == <<"."," ","\n","D","e","t","a","i","l","s",":"," ">>
        InvalidInput == <<"I","n","v","a","l","i","d","I","n","p","u","t">>
        MsgInvalidInput == <<" ","-"," ","P","o","s","s","i","b","l","e"," ","c","a","u","s","e","s",":"," ","t","o","k","e","n"," ","a","l","r","e","a","d","y"," ","r","e","g","i","s","t","e","r","e","d",","," ","i","n","v","a","l","i","d"," ","p","a","r","a","m","e","t","e","r","s",","," ","o","r"," ","z","e","r","o"," ","v","a","l","u","e","s">>
        MsgPossibleCauses == <<"\n","P","o","s","s","i","b","l","e"," ","c","a","u","s","e","s",":","\n","1","."," ","T","o","k","e","n"," ","a","l","r","e","a","d","y"," ","r","e","g","i","s","t","e","r","e","d"," ","i","n"," ","f","a","c","t","o","r","y","\n","2","."," ","I","n","v","a","l","i","d"," ","p","a","r","a","m","e","t","e","r","s"," ","(","e","m","p","t","y"," ","n","a","m","e","/","s","y","m","b","o","l",","," ","z","e","r","o"," ","s","u","p","p","l","y",","," ","z","e","r","o"," ","a","d","d","r","e","s","s",")","\n","3","."," ","F","a","c","t","o","r","y"," ","c","o","n","t","r","a","c","t"," ","n","o","t"," ","p","r","o","p","e","r","l","y"," ","a","c","t","i","v","a","t","e","d","\n","4","."," ","T","o","k","e","n"," ","c","o","n","t","r","a","c","t"," ","n","o","t"," ","f","u","l","l","y"," ","i","n","i","t","i","a","l","i","z","e","d">>
        MsgSimError == <<"S","i","m","u","l","a","t","i","o","n"," ","e","r","r","o","r",":"," ">>
        MsgSendError == <<"."," ","A","c","t","u","a","l"," ","s","e","n","d"," ","e","r","r","o","r",":"," ">>
    IN
    LET message == IF e.kind = "reject" THEN e.message
                   ELSE ErrorPrefix \o e.message
        streams == IF e.stderr # Empty THEN e.stderr ELSE e.stdout
        decoded == IF v = "part_001" /\ simErr # Empty
                   THEN MsgSimError \o simErr \o MsgSendError \o streams
                   ELSE streams
        causes  == IF ~Includes(decoded, ExecutionReverted) THEN Empty
                   ELSE IF v # "server" THEN MsgPossibleCauses
                   ELSE IF Includes(decoded, InvalidInput) THEN MsgInvalidInput
                   ELSE Empty
    IN  Error(MsgRegFailed \o factory \o MsgRegToken \o addr
              \o MsgRegName \o Interpolate(r.name)
              \o MsgRegSymbol \o Interpolate(r.symbol)
              \o MsgRegSupply \o Interpolate(r.initialSupply)
              \o MsgRegError \o message
              \o (IF v = "server" THEN MsgRegDecoded ELSE MsgRegDetails)
              \o decoded \o causes)

\* the factory activation started without await
StartFactoryActivationDetached(run) ==
    Begin(run, <<factoryActivateCmd(factoryAddress),
                 codeCheckCmd(factoryAddress)>>, "codeCheck")

\* `if (!factoryAddress) throw`, then the awaited factory activation
StartFactoryActivation(run) ==
    IF factoryAddress = Empty
    THEN Fail(run, Error(MsgFactoryRequired))
    ELSE Begin(run, <<factoryActivateCmd(factoryAddress)>>, "factoryActivate")

Init ==
    /\ variant \in Variants
    /\ \E a \in Arrivals : req = a[1] /\ env = a[2]
    /\ wire \in {l \in SupplyLiterals : Parsed[l] = req.initialSupply}
    /\ pc = "idle"
    /\ factoryAddress = Empty
    /\ tokenAddress = Empty
    /\ log = <<>>
    /\ running = {}
    /\ awaiting = 0
    /\ outputs = NoOutputs
    /\ simulationError = Empty
    /\ last = [step |-> "none", outcome |-> Outcome(TRUE, Empty, Empty)]
    /\ observed = <<>>
    /\ response = NoResponse
    /\ sent = 0
    /\ other = Alone

\* The request arrives: factory address resolution, validation, the secrets
\* check, and the start of the deploy command.
HandleRequest ==
    /\ pc = "idle"
    /\ factoryAddress' = ResolveFactory(req, env)
    /\ IF Invalid(req) THEN End(running, ValidationResponse)
       ELSE IF SecretsMissing(env) THEN End(running, SecretsResponse)
       ELSE Begin(running, <<deployCmd>>, "deploy")
    /\ UNCHANGED <<other, variant, wire, req, env, tokenAddress, outputs, simulationError, last, observed>>

\* The deploy command completes: address extraction, start of activation.
DeployDone ==
    /\ pc = "deploy"
    /\ \E o \in DeployOutcomes :
         /\ Observe("deploy", o)
         /\ LET deployOutput == Combined(o)
                addr == extractContractAddress(deployOutput)
            IN  IF ~o.ok
                THEN /\ Fail(Finished, Reject(o))
                     /\ UNCHANGED <<tokenAddress, outputs>>
                ELSE IF addr = Empty
                THEN /\ End(Finished, ParseFailureResponse(deployOutput))
                     /\ tokenAddress' = addr
                     /\ outputs' = [outputs EXCEPT !.deployOutput = deployOutput]
                ELSE /\ Begin(Finished, <<activateCmd(addr)>>, "activate")
                     /\ tokenAddress' = addr
                     /\ outputs' = [outputs EXCEPT !.deployOutput = deployOutput]
    /\ UNCHANGED <<other, variant, wire, req, env, factoryAddress, simulationError>>

\* The token activation completes: ProgramUpToDate is absorbed, any other
\* failure is rethrown; then the cache bid starts.
ActivateDone ==
    /\ pc = "activate"
    /\ \E o \in ActivateOutcomes :
         /\ Observe("activate", o)
         /\ IF o.ok \/ ActivateBenign(o.stderr)
            THEN /\ Begin(Finished, <<cacheCmd(tokenAddress)>>, "cache")
                 /\ outputs' = [outputs EXCEPT !.activateResult =
                       IF o.ok THEN Result(o.stdout, o.stderr)
                       ELSE BenignResult(o.stderr)]
            ELSE /\ Fail(Finished, Reject(o))
                 /\ UNCHANGED outputs
    /\ UNCHANGED <<other, variant, wire, req, env, factoryAddress, tokenAddress,
                   simulationError>>

\* The cache bid completes: "already cached" is absorbed, any other failure
\* is rethrown; then the init send starts.
CacheDone ==
    /\ pc = "cache"
    /\ \E o \in CacheOutcomes :
         /\ Observe("cacheBid", o)
         /\ IF o.ok \/ CacheBenign(o.stderr)
            THEN /\ Begin(Finished, <<initCmd(tokenAddress, req)>>, "init")
                 /\ outputs' = [outputs EXCEPT !.cacheResult =
                       IF o.ok THEN Result(o.stdout, o.stderr)
                       ELSE BenignResult(o.stderr)]
            ELSE /\ Fail(Finished, Reject(o))
                 /\ UNCHANGED outputs
    /\ UNCHANGED <<other, variant, wire, req, env, factoryAddress, tokenAddress,
                   simulationError>>

\* the init send wrapped in a catch that swallows its failure
InitFatalNever(o) == FALSE

\* `await runCommand(initShell, ..)` outside any inner try: a rejection is
\* thrown to the outer catch
InitFatal(o) == ~o.ok

\* The init send completes.  server.js goes on to the factory activation;
\* part_000 sleeps 2 s; part_001 sleeps 5 s, with or without a hash to poll.
InitDone ==
    /\ pc = "init"
    /\ \E o \in InitOutcomes :
         /\ Observe("init", o)
         /\ IF InitFatal(o)
            THEN /\ Fail(Finished, Reject(o))
                 /\ UNCHANGED outputs
            ELSE /\ outputs' = [outputs EXCEPT !.initResult =
                                   Result(o.stdout, o.stderr)]
                 /\ IF variant = "server"
                    THEN StartFactoryActivation(Finished)
                    ELSE IF variant = "part_000"
                    THEN Pause(Finished, "sleep")
                    ELSE IF txHashMatch(Combined(o)) # Empty
                    THEN Pause(Finished, "sleepHash")
                    ELSE Pause(Finished, "sleepNoHash")
    /\ UNCHANGED <<other, variant, wire, req, env, factoryAddress, tokenAddress,
                   simulationError>>

\* The parameter checks, the conversion to wei and the start of the
\* register_token send (part_000 after the code check, part_001 after the
\* simulation; server.js sends the supply as it came).
StartRegistration(run) ==
    LET bad == IF variant = "part_000"
               THEN ParamError(tokenAddress, req) ELSE Empty
        qty == RegisterQuantity(variant, req.initialSupply)
    IN  IF bad # Empty THEN Fail(run, Error(bad))
        ELSE IF ~qty.ok THEN Fail(run, BigIntError(req.initialSupply))
        ELSE Begin(run, <<registerCmd(factoryAddress, tokenAddress, req,
                                      qty.text)>>, "register")

\* part_000: the 2 s sleep ends; the factory activation is started and not
\* awaited, the code check is started and raced against a 5 s timer.
SleepDone ==
    /\ pc = "sleep"
    /\ IF factoryAddress = Empty
       THEN Fail(running, Error(MsgFactoryRequired))
       ELSE Begin(running, <<factoryActivateCmd(factoryAddress),
                             codeCheckCmd(factoryAddress)>>, "codeCheck")
    /\ UNCHANGED <<other, variant, wire, req, env, factoryAddress, tokenAddress, outputs,
                   simulationError, last, observed>>

\* part_001: the 5 s sleep after an init output with a hash ends; the receipt
\* is asked for.
HashSleepDone ==
    /\ pc = "sleepHash"
    /\ Begin(running, <<receiptCmd(txHashMatch(Combined(outputs.initResult)))>>,
             "receipt")
    /\ UNCHANGED <<other, variant, wire, req, env, factoryAddress, tokenAddress, outputs,
                   simulationError, last, observed>>

\* part_001: the receipt command completes; a failure costs 3 more seconds.
ReceiptDone ==
    /\ pc = "receipt"
    /\ \E o \in PlainOutcomes :
         /\ Observe("receipt", o)
         /\ IF o.ok THEN StartFactoryActivation(Finished)
            ELSE Pause(Finished, "sleepReceipt")
    /\ UNCHANGED <<other, variant, wire, req, env, factoryAddress, tokenAddress, outputs,
                   simulationError>>

\* the sleep after a failed receipt followed by asking for the receipt again
WaitDonePolls ==
    /\ pc \in {"sleepNoHash", "sleepReceipt"}
    /\ IF pc = "sleepReceipt"
       THEN /\ log' = log
            /\ running' = running \cup {Len(log)}
            /\ awaiting' = Len(log)
            /\ pc' = "receipt"
            /\ response' = response
            /\ sent' = sent
       ELSE StartFactoryActivation(running)
    /\ UNCHANGED <<other, variant, wire, req, env, factoryAddress, tokenAddress, outputs,
                   simulationError, last, observed>>

\* part_001: the sleep without a hash, or the one after a failed receipt, ends.
WaitDone ==
    /\ pc \in {"sleepNoHash", "sleepReceipt"}
    /\ StartFactoryActivation(running)
    /\ UNCHANGED <<other, variant, wire, req, env, factoryAddress, tokenAddress, outputs,
                   simulationError, last, observed>>

\* the factory activation with a catch that rethrows
FactoryActivateDoneRethrows ==
    /\ pc = "factoryActivate"
    /\ \E o \in FactoryActivateOutcomes :
         /\ Observe("factoryActivate", o)
         /\ IF o.ok
            THEN Begin(Finished, <<codeCheckCmd(factoryAddress)>>, "codeCheck")
            ELSE Fail(Finished, Reject(o))
    /\ UNCHANGED <<other, variant, wire, req, env, factoryAddress, tokenAddress, outputs,
                   simulationError>>

\* server.js, part_001: the awaited factory activation completes; whatever
\* its outcome, the factory code check starts.
FactoryActivateDone ==
    /\ pc = "factoryActivate"
    /\ \E o \in FactoryActivateOutcomes :
         /\ Observe("factoryActivate", o)
         /\ Begin(Finished, <<codeCheckCmd(factoryAddress)>>, "codeCheck")
    /\ UNCHANGED <<other, variant, wire, req, env, factoryAddress, tokenAddress, outputs,
                   simulationError>>

\* what a command nobody awaits can end with
DetachedOutcomes(step) ==
    IF step = "factoryActivate" THEN FactoryActivateOutcomes
    ELSE IF step = "codeCheck" THEN CodeOutcomes
    ELSE RegisterOutcomes

\* a send that lost its race answering the request when it completes
DetachedDoneResponds ==
    /\ \E i \in running \ {awaiting} :
         \E o \in DetachedOutcomes(log[i].step) :
            /\ running' = running \ {i}
            /\ observed' = observed @@ (i :> ExitClass(log[i].step, o))
            /\ IF log[i].step = "register" /\ o.ok
               THEN /\ response' = SuccessResponse(tokenAddress, outputs)
                    /\ sent' = sent + 1
               ELSE UNCHANGED <<response, sent>>
    /\ UNCHANGED <<other, variant, wire, req, env, pc, factoryAddress, tokenAddress, log,
                   awaiting, outputs, simulationError, last>>

\* A command the handler does not await (part_000's factory activation, a
\* command that lost its timeout race) completes: the activation's .catch
\* callback only logs, a settled race ignores its loser.
DetachedDone ==
    /\ \E i \in running \ {awaiting} :
         \E o \in DetachedOutcomes(log[i].step) :
            /\ running' = running \ {i}
            /\ observed' = observed @@ (i :> ExitClass(log[i].step, o))
    /\ UNCHANGED <<other, variant, wire, req, env, pc, factoryAddress, tokenAddress, log,
                   awaiting, outputs, simulationError, last, response, sent>>

\* what the code check's try block throws, Empty when it passes
CodeCheckError(o, noCodeMessage) ==
    IF ~o.ok THEN Reject(o)
    ELSE IF NoCode(Trim(Combined(o))) THEN Error(noCodeMessage)
    ELSE Error(Empty)

\* The factory code check completes.  server.js and part_001 rethrow its
\* failure as a verification error; part_000 logs it and goes on.
CodeCheckDone ==
    LET MsgNoCodeA == <<"F","a","c","t","o","r","y"," ","c","o","n","t","r","a","c","t"," ","h","a","s"," ","n","o"," ","c","o","d","e"," ","a","t"," ","a","d","d","r","e","s","s"," ">>
        MsgNoCodeB == <<"."," ","C","o","n","t","r","a","c","t"," ","m","a","y"," ","n","o","t"," ","b","e"," ","d","e","p","l","o","y","e","d",".">>
        MsgVerifyB == <<"."," ","P","l","e","a","s","e"," ","e","n","s","u","r","e"," ","t","h","e"," ","f","a","c","t","o","r","y"," ","c","o","n","t","r","a","c","t"," ","i","s"," ","d","e","p","l","o","y","e","d"," ","a","n","d"," ","a","c","t","i","v","a","t","e","d",".">>
        ColonSpace == <<":"," ">>
    IN
    /\ pc = "codeCheck"
    /\ \E o \in CodeOutcomes :
         /\ Observe("codeCheck", o)
         /\ LET e == CodeCheckError(o, MsgNoCodeA \o factoryAddress \o MsgNoCodeB)
            IN  IF variant = "part_000" THEN StartRegistration(Finished)
                ELSE IF e # Error(Empty)
                THEN Fail(Finished, Error(MsgVerifyA \o factoryAddress \o ColonSpace
                                          \o MessageOrStreams(e) \o MsgVerifyB))
                ELSE Begin(Finished, <<testCallCmd(factoryAddress)>>, "testCall")
    /\ UNCHANGED <<other, variant, wire, req, env, factoryAddress, tokenAddress, outputs,
                   simulationError>>

\* the commands awaited through Promise.race against a timer
Raced(v, step) == v = "part_000" /\ step \in {"codeCheck", "register"}

\* part_000: the 5 s timer wins the race; the code check keeps running.
CodeCheckTimeout ==
    /\ pc = "codeCheck"
    /\ Raced(variant, "codeCheck")
    /\ StartRegistration(running)
    /\ UNCHANGED <<other, variant, wire, req, env, factoryAddress, tokenAddress, outputs,
                   simulationError, last, observed>>

\* server.js, part_001: the view-function probe completes; its failure is
\* logged only.
TestCallDone ==
    /\ pc = "testCall"
    /\ \E o \in PlainOutcomes :
         /\ Observe("testCall", o)
         /\ Begin(Finished, <<checkTokenCmd(factoryAddress, tokenAddress)>>,
                  "checkToken")
    /\ UNCHANGED <<other, variant, wire, req, env, factoryAddress, tokenAddress, outputs,
                   simulationError>>

\* what the get_token_info try block throws, Error(Empty) when nothing
CheckTokenError(o, addr) ==
    LET MsgDupA == <<"T","o","k","e","n"," ">>
        MsgDupB == <<" ","i","s"," ","a","l","r","e","a","d","y"," ","r","e","g","i","s","t","e","r","e","d"," ","i","n"," ","f","a","c","t","o","r","y","."," ","C","a","n","n","o","t"," ","r","e","g","i","s","t","e","r"," ","t","h","e"," ","s","a","m","e"," ","t","o","k","e","n"," ","t","w","i","c","e",".">>
    IN
    IF ~o.ok THEN Reject(o)
    ELSE IF /\ Combined(o) # Empty
            /\ ~Includes(Combined(o), TokenNotFound)
            /\ ~Includes(Combined(o), ErrorWord)
    THEN Error(MsgDupA \o addr \o MsgDupB)
    ELSE Error(Empty)

\* checkErr.message && checkErr.message.includes("already registered")
Rethrown(e) ==
    e.kind = "Error" /\ e.message # Empty /\ Includes(e.message, AlreadyRegistered)

\* server.js, part_001: the get_token_info read completes.
CheckTokenDone ==
    /\ pc = "checkToken"
    /\ \E o \in CheckTokenOutcomes :
         /\ Observe("checkToken", o)
         /\ LET e == CheckTokenError(o, tokenAddress)
            IN  IF Rethrown(e) THEN Fail(Finished, e)
                ELSE IF variant = "server"
                THEN Begin(Finished,
                           <<simulateCmd(factoryAddress, tokenAddress, req,
                                         RawSupply(req.initialSupply).text)>>,
                           "simulate")
                ELSE Begin(Finished, <<tokenCheckCmd(tokenAddress)>>, "tokenCheck")
    /\ UNCHANGED <<other, variant, wire, req, env, factoryAddress, tokenAddress, outputs,
                   simulationError>>

\* part_001: the token code check completes; then the parameter checks, the
\* conversion to wei and the traced simulation.
TokenCheckDone ==
    LET MsgTokNoCodeA == <<"T","o","k","e","n"," ","c","o","n","t","r","a","c","t"," ","h","a","s"," ","n","o"," ","c","o","d","e"," ","a","t"," ">>
        MsgTokNoCodeB == <<"."," ","T","o","k","e","n"," ","m","a","y"," ","n","o","t"," ","b","e"," ","d","e","p","l","o","y","e","d"," ","o","r"," ","a","c","t","i","v","a","t","e","d",".">>
        MsgTokVerifyB == <<"."," ","C","a","n","n","o","t"," ","r","e","g","i","s","t","e","r"," ","t","o","k","e","n"," ","t","h","a","t"," ","d","o","e","s","n","'","t"," ","e","x","i","s","t",".">>
    IN
    /\ pc = "tokenCheck"
    /\ \E o \in CodeOutcomes :
         /\ Observe("tokenCheck", o)
         /\ LET e   == CodeCheckError(o, MsgTokNoCodeA \o tokenAddress
                                         \o MsgTokNoCodeB)
                bad == ParamError(tokenAddress, req)
                qty == initialSupplyWei(req.initialSupply)
            IN  IF e # Error(Empty)
                THEN Fail(Finished, Error(MsgTokVerifyA \o MessageOrStreams(e)
                                          \o MsgTokVerifyB))
                ELSE IF bad # Empty THEN Fail(Finished, Error(bad))
                ELSE IF ~qty.ok THEN Fail(Finished, BigIntError(req.initialSupply))
                ELSE Begin(Finished,
                           <<simulateCmd(factoryAddress, tokenAddress, req,
                                         qty.text)>>, "simulate")
    /\ UNCHANGED <<other, variant, wire, req, env, factoryAddress, tokenAddress, outputs,
                   simulationError>>

\* server.js, part_001: the simulation completes; its failure is logged (and
\* kept by part_001), and the register_token send starts.
\* the simulation with its failure thrown to the outer catch
SimulateDoneFatal ==
    /\ pc = "simulate"
    /\ \E o \in PlainOutcomes :
         /\ Observe("simulate", o)
         /\ UNCHANGED simulationError
         /\ IF o.ok THEN StartRegistration(Finished)
            ELSE Fail(Finished, Reject(o))
    /\ UNCHANGED <<other, variant, wire, req, env, factoryAddress, tokenAddress, outputs>>

SimulateDone ==
    /\ pc = "simulate"
    /\ \E o \in PlainOutcomes :
         /\ Observe("simulate", o)
         /\ /\ simulationError' =
                 IF variant = "part_001" /\ ~o.ok
                 THEN Trim(o.stderr \o NL \o o.stdout)
                 ELSE simulationError
            /\ StartRegistration(Finished)
    /\ UNCHANGED <<other, variant, wire, req, env, factoryAddress, tokenAddress, outputs>>

\* The register_token send completes: the success response, or the
\* registration error through the outer catch.
RegisterDone ==
    /\ pc = "register"
    /\ \E o \in RegisterOutcomes :
         /\ Observe("register", o)
         /\ IF o.ok
            THEN /\ outputs' = [outputs EXCEPT !.registerResult =
                                   Result(o.stdout, o.stderr)]
                 /\ End(Finished, SuccessResponse(tokenAddress, outputs'))
            ELSE /\ UNCHANGED outputs
                 /\ Fail(Finished,
                         RegistrationError(variant, factoryAddress, tokenAddress,
                                           req, Reject(o), simulationError))
    /\ UNCHANGED <<other, variant, wire, req, env, factoryAddress, tokenAddress,
                   simulationError>>

\* the 60 s timer answered by sending again
RegisterTimeoutRetries ==
    /\ pc = "register"
    /\ Raced(variant, "register")
    /\ Cardinality({i \in 1..Len(log) : log[i].step = "register"}) < 3
    /\ StartRegistration(running)
    /\ UNCHANGED <<other, variant, wire, req, env, factoryAddress, tokenAddress, outputs,
                   simulationError, last, observed>>

\* part_000: the 60 s timer wins the race; the send keeps running.
RegisterTimeout ==
    /\ pc = "register"
    /\ Raced(variant, "register")
    /\ Fail(running,
            RegistrationError(variant, factoryAddress, tokenAddress, req,
                              Error(MsgRegTimeout), simulationError))
    /\ UNCHANGED <<other, variant, wire, req, env, factoryAddress, tokenAddress, outputs,
                   simulationError, last, observed>>

Next ==
    \/ HandleRequest
    \/ DeployDone
    \/ ActivateDone
    \/ CacheDone
    \/ InitDone
    \/ SleepDone
    \/ HashSleepDone
    \/ ReceiptDone
    \/ WaitDone
    \/ FactoryActivateDone
    \/ DetachedDone
    \/ CodeCheckDone
    \/ CodeCheckTimeout
    \/ TestCallDone
    \/ CheckTokenDone
    \/ TokenCheckDone
    \/ SimulateDone
    \/ RegisterDone
    \/ RegisterTimeout

Spec == Init /\ [][Next]_vars

\* a valid request arrives at one of the three files
InitLive ==
    /\ Init
    /\ req = ScenarioRequest
    /\ env = [PRIVATE_KEY |-> Str(<<"k">>), RPC_ENDPOINT |-> Str(<<"k">>),
              FACTORY_ADDRESS |-> Undefined]

\* Every command that was started exits, every timer fires and the event
\* loop resumes the handler: a step that can be taken is taken.
SpecLive == InitLive /\ [][Next]_vars /\ WF_vars(Next)

(* ------------------------ two requests at once ------------------------ *)

\* the switch with the token address held in one place for both requests
SwitchSharingAddress ==
    /\ other # Alone
    /\ other' = [wire |-> wire, req |-> req, pc |-> pc,
                 factoryAddress |-> factoryAddress,
                 tokenAddress |-> tokenAddress, log |-> log,
                 running |-> running, awaiting |-> awaiting,
                 outputs |-> outputs, simulationError |-> simulationError,
                 last |-> last, observed |-> observed, response |-> response,
                 sent |-> sent]
    /\ wire' = other.wire
    /\ req' = other.req
    /\ pc' = other.pc
    /\ factoryAddress' = other.factoryAddress
    /\ tokenAddress' = tokenAddress
    /\ log' = other.log
    /\ running' = other.running
    /\ awaiting' = other.awaiting
    /\ outputs' = other.outputs
    /\ simulationError' = other.simulationError
    /\ last' = other.last
    /\ observed' = other.observed
    /\ response' = other.response
    /\ sent' = other.sent
    /\ UNCHANGED <<variant, env>>

\* While the handler of one request awaits a command, the process runs the
\* handler of the other: the locals of the two handlers change places.
Switch ==
    /\ other # Alone
    /\ other' = [wire |-> wire, req |-> req, pc |-> pc,
                 factoryAddress |-> factoryAddress,
                 tokenAddress |-> tokenAddress, log |-> log,
                 running |-> running, awaiting |-> awaiting,
                 outputs |-> outputs, simulationError |-> simulationError,
                 last |-> last, observed |-> observed, response |-> response,
                 sent |-> sent]
    /\ wire' = other.wire
    /\ req' = other.req
    /\ pc' = other.pc
    /\ factoryAddress' = other.factoryAddress
    /\ tokenAddress' = other.tokenAddress
    /\ log' = other.log
    /\ running' = other.running
    /\ awaiting' = other.awaiting
    /\ outputs' = other.outputs
    /\ simulationError' = other.simulationError
    /\ last' = other.last
    /\ observed' = other.observed
    /\ response' = other.response
    /\ sent' = other.sent
    /\ UNCHANGED <<variant, env>>

\* What the chain answers the command that has just completed.  The factory
\* records a token once: register_token succeeds for a token it does not
\* record and reverts for one it records, and get_token_info reports the
\* recorded tokens only.  The deployments give two addresses; the other
\* commands succeed.
Chain ==
    LET RegisteredBy(l, obs) ==
            {<<l[i].target, l[i].token>> :
                i \in {k \in DOMAIN obs :
                          l[k].step = "register" /\ obs[k] = "ok"}}
        recorded ==
            <<factoryAddress, tokenAddress>>
               \in RegisteredBy(log, observed)
                     \cup RegisteredBy(other.log, other.observed)
        step == last'.step
        o    == last'.outcome
    IN  IF step = "none" THEN TRUE
        ELSE IF step = "deploy"
        THEN o \in {Outcome(TRUE, <<"a","t"," ">> \o ScenarioAddress, Empty),
                    Outcome(TRUE, <<"a","t"," ">> \o OtherAddress, Empty)}
        ELSE IF step = "checkToken"
        THEN o = IF recorded THEN Outcome(TRUE, CodeText, Empty)
                 ELSE Outcome(FALSE, Empty, TokenNotFound)
        ELSE IF step = "simulate"
        THEN o.ok = ~recorded
        ELSE IF step = "register"
        THEN o = IF recorded THEN Outcome(FALSE, Empty, ExecutionReverted)
                 ELSE Outcome(TRUE, TxHashText, Empty)
        ELSE IF step = "codeCheck" THEN o = Outcome(TRUE, CodeText, Empty)
        ELSE o = Outcome(TRUE, <<"o","k">>, Empty)

\* two requests arrive at server.js, for different tokens by name
InitPair ==
    LET alone ==
            [wire |-> Literal("number", Pow10Text(MaxSupplyExp)),
             req |-> ScenarioRequest, pc |-> "idle", factoryAddress |-> Empty,
             tokenAddress |-> Empty, log |-> <<>>, running |-> {},
             awaiting |-> 0, outputs |-> NoOutputs, simulationError |-> Empty,
             last |-> [step |-> "none", outcome |-> Outcome(TRUE, Empty, Empty)],
             observed |-> <<>>, response |-> NoResponse, sent |-> 0]
    IN  /\ variant = "server"
        /\ env = [PRIVATE_KEY |-> Str(<<"k">>), RPC_ENDPOINT |-> Str(<<"k">>),
                  FACTORY_ADDRESS |-> Undefined]
        /\ wire = alone.wire
        /\ req = alone.req
        /\ pc = alone.pc
        /\ factoryAddress = alone.factoryAddress
        /\ tokenAddress = alone.tokenAddress
        /\ log = alone.log
        /\ running = alone.running
        /\ awaiting = alone.awaiting
        /\ outputs = alone.outputs
        /\ simulationError = alone.simulationError
        /\ last = alone.last
        /\ observed = alone.observed
        /\ response = alone.response
        /\ sent = alone.sent
        /\ other = [alone EXCEPT
                       !.wire = Literal("string", <<"7">>),
                       !.req = [name |-> Str(<<"C","o","i","n">>),
                                symbol |-> Str(<<"C","N">>),
                                initialSupply |-> Str(<<"7">>),
                                factoryAddress |-> Undefined]]

\* the steps of server.js's handler, answered by the chain, and the switch
\* between the two requests
NextPair ==
    \/ HandleRequest /\ Chain
    \/ DeployDone /\ Chain
    \/ ActivateDone /\ Chain
    \/ CacheDone /\ Chain
    \/ InitDone /\ Chain
    \/ FactoryActivateDone /\ Chain
    \/ CodeCheckDone /\ Chain
    \/ TestCallDone /\ Chain
    \/ CheckTokenDone /\ Chain
    \/ SimulateDone /\ Chain
    \/ RegisterDone /\ Chain
    \/ Switch

SpecPair == InitPair /\ [][NextPair]_vars

(* ------------------- extractContractAddress alone --------------------- *)

RECURSIVE Concat(_)
Concat(ps) == IF ps = <<>> THEN Empty ELSE Head(ps) \o Concat(Tail(ps))

\* The deploy outputs searched, put together from addresses in mixed case
\* and in one case, a token one digit short, a token with an upper-case X, a
\* transaction hash, and text that is not hexadecimal.
ExtractTexts ==
    LET ExtractPieces ==
            { ScenarioAddress, BodyFactory, ShortHexText,
              <<"0","X">> \o Rep("c", AddrHexLen), TxHashText,
              <<" ","a","t",":"," ">>, <<"x">> }
    IN  {Concat(ps) :
            ps \in UNION {[1..n -> ExtractPieces] : n \in 0..MaxPieces}}

\* a deploy output is about to be searched for the address
InitExtract ==
    /\ variant = "server"
    /\ req = ScenarioRequest
    /\ env = [PRIVATE_KEY |-> Str(<<"k">>), RPC_ENDPOINT |-> Str(<<"k">>),
              FACTORY_ADDRESS |-> Undefined]
    /\ wire = Literal("number", Pow10Text(MaxSupplyExp))
    /\ pc = "extract"
    /\ factoryAddress = FACTORY_ADDRESS
    /\ tokenAddress = Empty
    /\ log = <<>>
    /\ running = {}
    /\ awaiting = 0
    /\ outputs \in {[NoOutputs EXCEPT !.deployOutput = t] : t \in ExtractTexts}
    /\ simulationError = Empty
    /\ last = [step |-> "none", outcome |-> Outcome(TRUE, Empty, Empty)]
    /\ observed = <<>>
    /\ response = NoResponse
    /\ sent = 0
    /\ other = Alone

\* const tokenAddress = extractContractAddress(deployOutput)
Extract ==
    /\ pc = "extract"
    /\ tokenAddress' = extractContractAddress(outputs.deployOutput)
    /\ pc' = "extracted"
    /\ UNCHANGED <<other, variant, wire, req, env, factoryAddress, log, running,
                   awaiting, outputs, simulationError, last, observed,
                   response, sent>>

SpecExtract == InitExtract /\ [][Extract]_vars

(* --------------------- command lines and the shell -------------------- *)

\* the grave accent (U+0060), which a string of this language cannot hold
Backtick == "grave"

\* the text of initCmd after trim(); erc20Dir is path.join(__dirname,
\* "erc20-token")
initCmdText(addr, r, e) ==
    <<"c","d"," ","\"","/","a","p","p","/","e","r","c","2","0","-","t","o","k","e","n","\""," ","&","&"," ","c","a","s","t"," ","s","e","n","d"," "," "," ","-","-","p","r","i","v","a","t","e","-","k","e","y","=","\"">>
    \o Interpolate(e.PRIVATE_KEY) \o <<"\""," "," "," ","-","-","r","p","c","-","u","r","l"," ","\"">>
    \o Interpolate(e.RPC_ENDPOINT) \o <<"\""," "," "," ","-","-","m","a","x","-","f","e","e","-","p","e","r","-","g","a","s"," ","0",".","2","g","w","e","i"," "," "," ">>
    \o addr \o <<" "," "," ","\"","i","n","i","t","(","s","t","r","i","n","g",",","s","t","r","i","n","g",",","u","i","n","t","2","5","6",")","\""," "," "," ","\"">>
    \o Interpolate(r.name) \o <<"\""," ","\"">> \o Interpolate(r.symbol) \o <<"\""," ">>
    \o Interpolate(r.initialSupply)

\* the text of server.js's registerCmd after trim()
registerCmdText(factory, addr, r, e) ==
    <<"c","a","s","t"," ","s","e","n","d"," "," "," ","-","-","p","r","i","v","a","t","e","-","k","e","y","=","\"">>
    \o Interpolate(e.PRIVATE_KEY) \o <<"\""," "," "," ","-","-","r","p","c","-","u","r","l"," ","\"">>
    \o Interpolate(e.RPC_ENDPOINT) \o <<"\""," "," "," ","-","-","m","a","x","-","f","e","e","-","p","e","r","-","g","a","s"," ","0",".","2","g","w","e","i"," "," "," ">>
    \o factory \o <<" "," "," ","\"","r","e","g","i","s","t","e","r","_","t","o","k","e","n","(","a","d","d","r","e","s","s",",","s","t","r","i","n","g",",","s","t","r","i","n","g",",","u","i","n","t","2","5","6",")","\""," "," "," ">>
    \o addr \o <<" ","\"">>
    \o Interpolate(r.name) \o <<"\""," ","\"">> \o Interpolate(r.symbol) \o <<"\""," ">>
    \o Interpolate(r.initialSupply)

\* cmd.replace(/"/g, '\\"')
RECURSIVE EscapeQuotes(_)
EscapeQuotes(s) ==
    IF \A j \in 1..Len(s) : s[j] # "\"" THEN s
    ELSE LET q == CHOOSE j \in 1..Len(s) :
                     s[j] = "\"" /\ \A k \in 1..(j - 1) : s[k] # "\""
         IN  SubSeq(s, 1, q - 1) \o <<"\\", "\"">>
             \o EscapeQuotes(SubSeq(s, q + 1, Len(s)))

\* `bash -lc "${cmd.replace(/"/g, '\\"')}"`
ShellLine(cmd) == <<"b","a","s","h"," ","-","l","c"," ","\"">> \o EscapeQuotes(cmd) \o <<"\"">>

\* A shell reads the command line s: quoting with double quotes and
\* backslashes, command substitution, expansion of $$ and of variables (none
\* of those named is set), $"..." outside quotes, word splitting, and the
\* separators ; and &&. Its state is the quoting mode, the word and the
\* command being read, the commands read and the commands substituted.
Shell(s) ==
    LET \* what $$ expands to: the process id of the shell
        ProcessId == <<"7">>
        \* what a substituted command prints
        SubstOutput == <<"u","i","d">>
        NameChars ==
            {"a","b","c","d","e","f","g","h","i","j","k","l","m","n","o","p",
             "q","r","s","t","u","v","w","x","y","z","A","B","C","D","E","F",
             "G","H","I","J","K","L","M","N","O","P","Q","R","S","T","U","V",
             "W","X","Y","Z","_"} \cup DecDigits
        ShellStart ==
            [mode |-> "plain", w |-> Empty, has |-> FALSE, words |-> <<>>,
             cmds |-> <<>>, subst |-> <<>>, error |-> FALSE]
        SyntaxError(st) == [st EXCEPT !.error = TRUE]
        Put(st, t) == [st EXCEPT !.w = @ \o t, !.has = TRUE]
        \* the characters that mean something to the shell in a quoting mode
        Special(mode) ==
            {"\\", "\"", "$", Backtick}
            \cup (IF mode = "dq" THEN {}
                  ELSE WhiteSpace \cup {";", "&", "(", ")"})
        \* the first place at or after i where a character of cs stands, 0
        \* when there is none
        FindFrom(i, cs) ==
            LET at == {j \in i..Len(s) : s[j] \in cs}
            IN  IF at = {} THEN 0 ELSE CHOOSE j \in at : \A k \in at : j <= k
        EndWord(st) ==
            IF st.has
            THEN [st EXCEPT !.words = Append(@, st.w), !.w = Empty,
                            !.has = FALSE]
            ELSE st
        EndCommand(t) == [t EXCEPT !.cmds = Append(@, t.words), !.words = <<>>]
        \* ; or && after a command
        Separator(st) ==
            IF EndWord(st).words = <<>> THEN SyntaxError(st)
            ELSE EndCommand(EndWord(st))
        \* the end of the command line
        EndLine(st) ==
            IF st.mode = "dq" THEN SyntaxError(st)
            ELSE IF EndWord(st).words = <<>> THEN EndWord(st)
            ELSE EndCommand(EndWord(st))
        \* $(cmd) or a command between grave accents: the command is run
        \* and its output takes its place
        Substitute(st, cmd) ==
            [st EXCEPT !.subst = Append(@, cmd), !.w = @ \o SubstOutput,
                       !.has = TRUE]
        \* the first place at or after i that is not part of a variable's name
        RECURSIVE SkipName(_)
        SkipName(i) ==
            IF i <= Len(s) /\ s[i] \in NameChars THEN SkipName(i + 1) ELSE i
        \* the shell reads on at place i: the place it goes on from, and its
        \* state there
        ShellStep(i, st) ==
            LET c == s[i]
                n == IF i < Len(s) THEN s[i + 1] ELSE ""
                at(j, t) == [i |-> j, st |-> t]
            IN  IF c \notin Special(st.mode)
                THEN LET j == FindFrom(i, Special(st.mode))
                         k == IF j = 0 THEN Len(s) + 1 ELSE j
                     IN  at(k, Put(st, SubSeq(s, i, k - 1)))
                ELSE IF c = "\\"
                THEN IF i = Len(s) THEN at(i + 1, Put(st, <<c>>))
                     ELSE IF st.mode = "plain"
                             \/ n \in {"$", Backtick, "\"", "\\"}
                     THEN at(i + 2, Put(st, <<n>>))
                     ELSE at(i + 1, Put(st, <<c>>))
                ELSE IF c = "\""
                THEN at(i + 1,
                        [st EXCEPT !.mode = IF @ = "plain" THEN "dq" ELSE "plain",
                                   !.has = TRUE])
                ELSE IF c = "$" /\ n = "("
                THEN LET j == FindFrom(i + 2, {")"})
                     IN  IF j = 0 THEN at(i, SyntaxError(st))
                         ELSE at(j + 1, Substitute(st, SubSeq(s, i + 2, j - 1)))
                ELSE IF c = Backtick
                THEN LET j == FindFrom(i + 1, {Backtick})
                     IN  IF j = 0 THEN at(i, SyntaxError(st))
                         ELSE at(j + 1, Substitute(st, SubSeq(s, i + 1, j - 1)))
                ELSE IF c = "$" /\ n = "$"
                THEN at(i + 2, Put(st, ProcessId))
                ELSE IF c = "$" /\ n = "\"" /\ st.mode = "plain"
                THEN at(i + 1, st)
                ELSE IF c = "$" /\ n \in NameChars
                THEN at(SkipName(i + 1), st)
                ELSE IF st.mode = "dq" THEN at(i + 1, Put(st, <<c>>))
                ELSE IF c \in WhiteSpace THEN at(i + 1, EndWord(st))
                ELSE IF c = ";" THEN at(i + 1, Separator(st))
                ELSE IF c = "&" /\ n = "&" THEN at(i + 2, Separator(st))
                ELSE IF c \in {"(", ")", "&"} THEN at(i, SyntaxError(st))
                ELSE at(i + 1, Put(st, <<c>>))
        RECURSIVE ShellFrom(_)
        ShellFrom(x) ==
            IF x.st.error THEN x.st
            ELSE IF x.i > Len(s) THEN EndLine(x.st)
            ELSE ShellFrom(ShellStep(x.i, x.st))
    IN  ShellFrom([i |-> 1, st |-> ShellStart])

\* exec(command): /bin/sh -c command. The argument lists of the programs
\* that run, in order, and the commands run by substitution; for
\* `bash -lc text` the programs are those of the text.
Exec(command) ==
    LET none == [ran |-> <<>>, subst |-> <<>>]
        RunOne(words) ==
            IF Len(words) >= 3 /\ SubSeq(words, 1, 2) = <<<<"b","a","s","h">>, <<"-","l","c">>>>
            THEN LET inner == Shell(words[3])
                 IN  IF inner.error THEN none
                     ELSE [ran |-> inner.cmds, subst |-> inner.subst]
            ELSE [ran |-> <<words>>, subst |-> <<>>]
        RECURSIVE RunAll(_)
        RunAll(cmds) ==
            IF cmds = <<>> THEN none
            ELSE LET a == RunOne(Head(cmds))
                     b == RunAll(Tail(cmds))
                 IN  [ran |-> a.ran \o b.ran, subst |-> a.subst \o b.subst]
        outer == Shell(command)
    IN  IF outer.error THEN none
        ELSE [ran |-> RunAll(outer.cmds).ran,
              subst |-> outer.subst \o RunAll(outer.cmds).subst]

\* the names: texts of letters, quotes, backslashes, dollars, substitutions,
\* separators and spaces
NameTexts ==
    LET NamePieces ==
            { <<"T">>, <<"\"">>, <<"\\">>, <<"$">>, <<"$","(","i","d",")">>,
              <<Backtick,"i","d",Backtick>>, <<";">>, <<" ">> }
    IN  {Concat(ps) :
            ps \in UNION {[1..n -> NamePieces] : n \in 1..MaxNamePieces}}

\* a valid request has been deployed and is about to be initialized
InitShell ==
    /\ variant = "server"
    /\ \E n \in NameTexts, s \in {<<"T","S","T">>, <<"\"">>} :
          req = [ScenarioRequest EXCEPT !.name = Str(n), !.symbol = Str(s)]
    /\ env = [PRIVATE_KEY |-> Str(<<"k">>), RPC_ENDPOINT |-> Str(<<"k">>),
              FACTORY_ADDRESS |-> Undefined]
    /\ wire = Literal("number", Pow10Text(MaxSupplyExp))
    /\ pc = "init"
    /\ factoryAddress = FACTORY_ADDRESS
    /\ tokenAddress = ScenarioAddress
    /\ log = <<>>
    /\ running = {}
    /\ awaiting = 0
    /\ outputs = NoOutputs
    /\ simulationError = Empty
    /\ last = [step |-> "none", outcome |-> Outcome(TRUE, Empty, Empty)]
    /\ observed = <<>>
    /\ response = NoResponse
    /\ sent = 0
    /\ other = Alone

\* runCommand(initShell): the shell runs the init command line
RunInit ==
    /\ pc = "init"
    /\ log' = Append(log, [step |-> "init"]
                           @@ Exec(ShellLine(initCmdText(tokenAddress, req, env))))
    /\ pc' = "register"
    /\ UNCHANGED <<other, variant, wire, req, env, factoryAddress, tokenAddress,
                   running, awaiting, outputs, simulationError, last,
                   observed, response, sent>>

\* runCommand(registerShell): the shell runs the register command line
RunRegister ==
    /\ pc = "register"
    /\ log' = Append(log, [step |-> "register"]
                           @@ Exec(ShellLine(registerCmdText(factoryAddress,
                                                             tokenAddress, req, env))))
    /\ pc' = "ran"
    /\ UNCHANGED <<other, variant, wire, req, env, factoryAddress, tokenAddress,
                   running, awaiting, outputs, simulationError, last,
                   observed, response, sent>>

SpecShell == InitShell /\ [][RunInit \/ RunRegister]_vars

(* ------------------------------- claims ------------------------------- *)

Responded == response.status # 0

LastStep == log[Len(log)].step

StepsStarted == {log[i].step : i \in 1..Len(log)}

\* the text holds a 0x-prefixed run of 40 hex digits
HasAddress(text) ==
    \E i \in 1..Len(text) :
        /\ i + 41 <= Len(text)
        /\ SubSeq(text, i, i + 1) = <<"0","x">>
        /\ \A k \in (i + 2)..(i + 41) : text[k] \in HexDigits

\* a request field that is missing or empty
MissingOrEmpty(v) == v.t = "undef" \/ (v.t = "str" /\ v.s = Empty)

\* C1 as stated: at most one external command of the request is running at
\* any time.
C1_AtMostOneRunning == Cardinality(running) <= 1

\* C1, amended: the handler awaits at most one command at a time; deploy,
\* activate, cache-bid and init never run beside another command; in
\* server.js and part_001 nothing runs but the awaited command; in part_000
\* the only commands running beside the awaited one are the factory
\* activation it never awaits and a code check or register send whose
\* timeout fired.
C1_AwaitedStepsSequential ==
    /\ awaiting # 0 => awaiting \in running
    /\ \A i \in running :
         log[i].step \in {"deploy", "activate", "cacheBid", "init"}
            => running = {i}
    /\ variant # "part_000" => running \subseteq {awaiting}
    /\ \A i \in running \ {awaiting} :
         /\ log[i].step \in {"factoryActivate", "codeCheck", "register"}
         /\ i \notin DOMAIN observed

C1_Witness ==
    /\ variant = "part_000"
    /\ pc = "register"
    /\ Cardinality(running) = 3

\* C2: a deploy command that exits zero with no 0x-prefixed 40-hex-digit
\* address in its combined output ends the request with HTTP 500, and the
\* deploy command stays the only command ever started.
C2_NoAddressAborts ==
    (/\ last.step = "deploy"
     /\ last.outcome.ok
     /\ ~HasAddress(Combined(last.outcome)))
    => (pc = "done" /\ response.status = 500 /\ Len(log) = 1)

C2_Witness ==
    /\ last.step = "deploy"
    /\ last.outcome.ok
    /\ last.outcome.stdout = ShortHexText
    /\ response.status = 500

\* w * 10^18 for the decimal text w
TimesTenTo18(w) == IF w = <<"0">> THEN w ELSE w \o Rep("0", 18)

\* C3: whenever a register_token send has been started, its quantity is the
\* quantity of the init send times 10^18.
C3_SameEconomicAmount ==
    \A i, j \in 1..Len(log) :
        (log[i].step = "init" /\ log[j].step = "register")
           => log[j].qty = TimesTenTo18(log[i].qty)

\* C4: a request whose name, symbol or initialSupply is missing or empty is
\* answered with HTTP 400 and no command is ever started for it.
C4_InvalidRequestRejected ==
    (/\ pc # "idle"
     /\ \/ MissingOrEmpty(req.name)
        \/ MissingOrEmpty(req.symbol)
        \/ MissingOrEmpty(req.initialSupply))
    => (pc = "done" /\ response.status = 400 /\ log = <<>>)

C4_Witness ==
    /\ MissingOrEmpty(req.symbol)
    /\ ~MissingOrEmpty(req.name)
    /\ ~MissingOrEmpty(req.initialSupply)
    /\ response.status = 400

\* C5 as stated: with PRIVATE_KEY or RPC_ENDPOINT missing or empty, the
\* request is answered with HTTP 500 and no command is started.
C5_MissingSecretsGive500 ==
    (/\ pc # "idle"
     /\ MissingOrEmpty(env.PRIVATE_KEY) \/ MissingOrEmpty(env.RPC_ENDPOINT))
    => (response.status = 500 /\ log = <<>>)

\* C5, amended: with PRIVATE_KEY or RPC_ENDPOINT missing or empty no command
\* is ever started; the answer is HTTP 500 (the secrets error) when the
\* request passes validation, and the validation's HTTP 400 when it does not.
C5_MissingSecretsNeverStart ==
    (/\ pc # "idle"
     /\ MissingOrEmpty(env.PRIVATE_KEY) \/ MissingOrEmpty(env.RPC_ENDPOINT))
    => /\ pc = "done"
       /\ log = <<>>
       /\ response = IF Invalid(req) THEN ValidationResponse
                     ELSE SecretsResponse

C5_Witness ==
    /\ MissingOrEmpty(env.RPC_ENDPOINT)
    /\ ~MissingOrEmpty(env.PRIVATE_KEY)
    /\ ~Invalid(req)
    /\ response.status = 500

\* the pipeline's steps in the order of its states
StateOrder ==
    <<"deploy", "activate", "cacheBid", "init", "factoryActivate",
      "codeCheck", "tokenCheck", "register">>

\* the command at index i ended in success, or in a failure its step absorbs
Passed(i) ==
    /\ i \in DOMAIN observed
    /\ \/ observed[i] = "ok"
       \/ /\ observed[i] = "failed"
          /\ log[i].step \in {"activate", "cacheBid", "factoryActivate"}

\* C6: a success response is sent only after every state of the pipeline was
\* passed in order, each step having succeeded or been absorbed; so never
\* after a code check that found no code, without a passed token code check,
\* or after a failed register send.
C6_SuccessOnlyAfterAllStates ==
    response.status = 200 =>
        /\ \A k \in 1..Len(StateOrder) :
             \E i \in 1..Len(log) : log[i].step = StateOrder[k] /\ Passed(i)
        /\ \A i, j \in 1..Len(log) :
             \A k, l \in 1..Len(StateOrder) :
                (log[i].step = StateOrder[k] /\ log[j].step = StateOrder[l]
                 /\ k < l) => i < j

\* C7: a token activation that exits non-zero with "already up to date" or
\* "already activated" in its output is absorbed, and the cache bid starts.
C7_AlreadyActiveIsBenign ==
    (/\ last.step = "activate"
     /\ ~last.outcome.ok
     /\ \/ Includes(Combined(last.outcome), AlreadyUpToDate)
        \/ Includes(Combined(last.outcome), AlreadyActivated))
    => (pc = "cache" /\ LastStep = "cacheBid" /\ ~Responded)

\* C8: a cache bid that exits non-zero with "already cached" in its stderr
\* is absorbed, and the init send starts.
C8_AlreadyCachedIsBenign ==
    (/\ last.step = "cacheBid"
     /\ ~last.outcome.ok
     /\ Includes(last.outcome.stderr, AlreadyCached))
    => (pc = "init" /\ LastStep = "init" /\ ~Responded)

C8_Witness ==
    /\ last.step = "cacheBid"
    /\ ~last.outcome.ok
    /\ Includes(last.outcome.stderr, AlreadyCached)
    /\ last.outcome.stderr # AlreadyCached
    /\ pc = "init"

C10_InitFailureAborts ==
    (last.step = "init" /\ ~last.outcome.ok)
    => /\ pc = "done"
       /\ response.status = 500
       /\ LastStep = "init"
       /\ StepsStarted \subseteq {"deploy", "activate", "cacheBid", "init"}

C10_Witness ==
    /\ last.step = "init"
    /\ ~last.outcome.ok
    /\ response.status = 500
    /\ Len(log) = 4

\* the commands of one step that were started
Started(step) == {i \in 1..Len(log) : log[i].step = step}

\* the handler saw command i end with class c
Seen(i, c) == i \in DOMAIN observed /\ observed[i] = c

\* C11: a failed factory activation, whatever it printed, never ends the
\* request: the factory code check is the next command started, and no
\* response is ever sent with the factory activation as the last command
\* started.  (That a success response is still reachable is C11_Witness.)
C11_FactoryActivationNeverAborts ==
    /\ (last.step = "factoryActivate" /\ ~last.outcome.ok)
          => (pc = "codeCheck" /\ LastStep = "codeCheck" /\ ~Responded)
    /\ \A i \in Started("factoryActivate") :
          i \in DOMAIN observed
             => (i < Len(log) /\ log[i + 1].step = "codeCheck")
    /\ (Responded /\ log # <<>>) => LastStep # "factoryActivate"

C11_Witness ==
    /\ \E i \in Started("factoryActivate") : Seen(i, "failed")
    /\ Started("register") # {}
    /\ response.status = 200

\* C12: a factory code check that prints nothing or bare 0x ends the request
\* with a failure naming the factory address, and no register_token send is
\* ever started.
C12_NoFactoryCodeAborts ==
    (/\ last.step = "codeCheck"
     /\ ExitClass("codeCheck", last.outcome) = "nocode")
    => /\ pc = "done"
       /\ response.status = 500
       /\ response.error = "Deployment flow failed"
       /\ Includes(response.details.message, factoryAddress)
       /\ Started("register") = {}

\* C13: a register_token send is started only after a code check of the
\* token address has returned code.
C13_RegisterOnlyAfterTokenCheck ==
    \A j \in Started("register") :
        \E i \in Started("tokenCheck") : i < j /\ Seen(i, "ok")

\* the get_token_info read succeeded with output that reports a token
ReportsToken(o) ==
    /\ o.ok
    /\ o.stdout # Empty
    /\ ~Includes(Combined(o), TokenNotFound)
    /\ ~Includes(Combined(o), ErrorWord)

\* C14: when the get_token_info read reports the token the request fails
\* with the duplicate-registration message, not the registration-failure
\* one, and no register_token send is ever started; and, so that a token the
\* factory already records is never sent again, every register_token send
\* comes after an answered get_token_info read.
C14_DuplicateNeverSent ==
    /\ (last.step = "checkToken" /\ ReportsToken(last.outcome))
          => /\ pc = "done"
             /\ response.status = 500
             /\ Includes(response.details.message, AlreadyRegistered)
             /\ ~Includes(response.details.message, MsgRegFailed)
             /\ Started("register") = {}
    /\ \A j \in Started("register") :
          \E i \in Started("checkToken") : i < j /\ i \in DOMAIN observed

\* C15: within one request at most one register_token send is ever started;
\* a failed send ends the request with HTTP 500, a send that timed out (it
\* is still running when the response is sent) ends it with HTTP 500, and a
\* success response is sent only on the completion of the one send with
\* exit status zero.
C15_RegisterAtMostOnce ==
    /\ Cardinality(Started("register")) <= 1
    /\ (last.step = "register" /\ ~last.outcome.ok)
          => (pc = "done" /\ response.status = 500)
    /\ (pc = "done" /\ Started("register") \cap running # {})
          => response.status = 500
    /\ response.status = 200
          => /\ last.step = "register" /\ last.outcome.ok
             /\ \A i \in Started("register") : Seen(i, "ok") /\ i \notin running

C15_Witness ==
    /\ variant = "part_000"
    /\ pc = "done"
    /\ Started("register") \cap running # {}
    /\ response.status = 500
    /\ Includes(response.details.message, MsgRegTimeout)

\* the steps that submit a signed transaction
SignedSteps == {"deploy", "activate", "cacheBid", "init", "register"}

\* C16: whenever the handler waits for the command of a step that submits a
\* signed transaction, a timer bounds the wait.
C16_SignedStepsBounded ==
    (awaiting # 0 /\ log[awaiting].step \in SignedSteps)
    => Raced(variant, log[awaiting].step)

\* the read-only verification steps
ReadOnlySteps == {"codeCheck", "tokenCheck", "testCall"}

\* C17: whenever the handler waits for a read-only verification command a
\* timer bounds the wait, and such a command failing or finding no code
\* never ends the request with a verification failure.
C17_ReadOnlyBoundedNonFatal ==
    /\ (awaiting # 0 /\ log[awaiting].step \in ReadOnlySteps)
          => Raced(variant, log[awaiting].step)
    /\ (/\ last.step \in ReadOnlySteps
        /\ ExitClass(last.step, last.outcome) # "ok"
        /\ Responded)
          => /\ ~Includes(response.details.message, MsgVerifyA)
             /\ ~Includes(response.details.message, MsgTokVerifyA)

\* C18 as stated: every failure of a started pipeline is answered with HTTP
\* 500, error "Deployment flow failed" and details, with no other field.
C18_OneFailureShape ==
    (Responded /\ log # <<>> /\ response.status # 200)
    => /\ response.status = 500
       /\ response.error = "Deployment flow failed"
       /\ DOMAIN response = {"status", "error", "details"}

\* C18, amended: every failure of a started pipeline is answered with HTTP
\* 500.  A deploy command that exited zero with no address in its output is
\* answered with the parse error and the deploy output as a top-level
\* field.  Every other failure is answered with error "Deployment flow
\* failed" and details holding a message; details.stdout and details.stderr
\* are those of the failed command when its rejection reached the outer
\* catch as it was, and are absent when the handler threw an Error of its
\* own.
C18_FailureBodies ==
    (Responded /\ log # <<>> /\ response.status # 200)
    => IF Len(log) = 1 /\ Seen(1, "ok")
       THEN response =
              [status |-> 500,
               error |-> "Failed to parse deployed token contract address from deploy output",
               deployOutput |-> Combined(last.outcome)]
       ELSE /\ response.status = 500
            /\ response.error = "Deployment flow failed"
            /\ DOMAIN response = {"status", "error", "details"}
            /\ response.details.message # Empty
            /\ IF response.details.streams
               THEN /\ last.step = LastStep
                    /\ ~last.outcome.ok
                    /\ response.details.message = CommandFailed
                    /\ response.details.stdout = last.outcome.stdout
                    /\ response.details.stderr = last.outcome.stderr
               ELSE /\ response.details.stdout = Empty
                    /\ response.details.stderr = Empty
                    /\ Includes(response.details.message, ErrorPrefix)

C18_Witness ==
    /\ response.status = 500
    /\ "deployOutput" \in DOMAIN response
    /\ Includes(response.deployOutput, <<"d","o","n","e">>)

DenotesZero(v) == v.t \in {"num", "str"} /\ v.s = <<"0">>

\* C20: no command is started unless name, symbol and initialSupply are
\* present, non-empty and non-zero.
C20_ZeroSupplyNeverDeploys ==
    log # <<>>
    => /\ ~MissingOrEmpty(req.name)
       /\ ~MissingOrEmpty(req.symbol)
       /\ ~MissingOrEmpty(req.initialSupply)
       /\ ~DenotesZero(req.initialSupply)

\* the steps whose command carries the token address
TokenSteps == {"activate", "cacheBid", "init", "checkToken", "tokenCheck",
               "simulate", "register"}

\* the address a command uses for the token
TokenOf(c) ==
    IF c.step \in {"activate", "cacheBid", "init", "tokenCheck"} THEN c.target
    ELSE c.token

\* C21: the zero address is never the token address of an activate,
\* cache-bid, initialize or register command, and a request whose deploy
\* output gave the zero address never succeeds.
C21_ZeroAddressNeverUsed ==
    /\ \A i \in 1..Len(log) :
          log[i].step \in {"activate", "cacheBid", "init", "register"}
             => TokenOf(log[i]) # ZeroAddress
    /\ response.status = 200 => response.tokenAddress # ZeroAddress

\* a supply that is negative or not a whole number
NegativeOrFractional(v) ==
    /\ v.t \in {"num", "str"}
    /\ v.s # Empty
    /\ Head(v.s) = "-" \/ Includes(v.s, <<".">>)

\* C23: for a negative supply, or one that is not a whole number, no
\* register_token command is ever started.
C23_BadSupplyNeverRegistered ==
    NegativeOrFractional(req.initialSupply) => Started("register") = {}

\* the steps whose command is addressed to the factory
FactorySteps == {"factoryActivate", "codeCheck", "testCall", "checkToken",
                 "simulate", "register"}

\* C24: every factory step's command is addressed to the request's
\* factoryAddress when it is given and not empty, else to the environment's
\* FACTORY_ADDRESS when it is set and not empty, else to the compiled-in
\* address; that address is never empty.
C24_FactoryResolution ==
    \A i \in 1..Len(log) :
        log[i].step \in FactorySteps
           => /\ log[i].target # Empty
              /\ log[i].target =
                    IF ~MissingOrEmpty(req.factoryAddress)
                    THEN req.factoryAddress.s
                    ELSE IF ~MissingOrEmpty(env.FACTORY_ADDRESS)
                    THEN env.FACTORY_ADDRESS.s
                    ELSE FACTORY_ADDRESS

C24_Witness ==
    /\ req.factoryAddress = Str(Empty)
    /\ env.FACTORY_ADDRESS = Str(EnvFactory)
    /\ \E i \in Started("register") : log[i].target = EnvFactory
    /\ response.status = 200

\* C29: exactly one response is sent on every path of the handler: none
\* while the handler is still running, one when it has returned, and the
\* response sent is never replaced.
C29_ExactlyOneResponse ==
    /\ sent = IF pc = "done" THEN 1 ELSE 0
    /\ Responded <=> pc = "done"

C29_Witness ==
    /\ variant = "part_000"
    /\ pc = "done"
    /\ sent = 1
    /\ response.status = 500
    /\ Started("register") # {}
    /\ \A i \in Started("register") : Seen(i, "ok")

\* C30: when the response is sent no command started by the request is
\* still running.
C30_NothingRunsAfterResponse ==
    Responded => running = {}

\* the request's initialSupply is written as a whole number w
WholeLiteral(l) == l.j \in {"number", "string"} /\ IsDigits(l.text)

\* C22: where the supply is converted (part_000, part_001), the quantity of
\* every register_token send is w * 10^18 exactly, for the whole number w
\* the request wrote, however large.
C22_ExactConversion ==
    (variant # "server" /\ WholeLiteral(wire))
    => \A j \in Started("register") :
          log[j].qty = TimesTenTo18(StripZeros(wire.text))

\* a hexadecimal digit of either case
HexChar(c) ==
    c \in DecDigits \cup {"a","b","c","d","e","f","A","B","C","D","E","F"}

\* the places of a text where 0x and 40 hexadecimal digits stand
TokenPlaces(text) ==
    {i \in 1..(Len(text) - 41) :
        /\ SubSeq(text, i, i + 1) = <<"0","x">>
        /\ \A k \in (i + 2)..(i + 41) : HexChar(text[k])}

CastArgs(c) == c.ran[Len(c.ran)]

\* C28: whatever the name and the symbol contain, each command line runs
\* its programs only (cd and cast for init, cast for register), nothing is
\* run by substitution, and cast's last three arguments are the name, the
\* symbol and the supply as the request gave them.
C28_NameAndSymbolLiteral ==
    \A i \in 1..Len(log) :
        /\ log[i].subst = <<>>
        /\ Len(log[i].ran) = IF log[i].step = "init" THEN 2 ELSE 1
        /\ Head(CastArgs(log[i])) = <<"c","a","s","t">>
        /\ LET a == CastArgs(log[i])
           IN  /\ Len(a) >= 3
               /\ SubSeq(a, Len(a) - 2, Len(a)) =
                     <<req.name.s, req.symbol.s, req.initialSupply.s>>

(* Two requests at once, SpecPair. *)

C27_OwnDataOnly ==
    LET OwnData(r) ==
            LET own == extractContractAddress(r.outputs.deployOutput)
            IN  /\ \A i \in 1..Len(r.log) :
                     LET c == r.log[i]
                     IN  /\ c.step \in {"activate", "cacheBid", "init"}
                            => c.target = own
                         /\ c.step = "register" => c.token = own
                         /\ c.step \in {"init", "register"}
                            => /\ c.name = r.req.name.s
                               /\ c.symbol = r.req.symbol.s
                               /\ c.qty = r.req.initialSupply.s
                /\ r.response.status = 200 => r.response.tokenAddress = own
    IN  /\ OwnData([log |-> log, outputs |-> outputs, req |-> req,
                    response |-> response])
        /\ other # Alone => OwnData(other)

\* the two requests have commands in flight at once, for two tokens
C27_Witness ==
    /\ other # Alone
    /\ pc = "register" /\ awaiting # 0
    /\ other.pc = "init" /\ other.awaiting # 0
    /\ tokenAddress = ScenarioAddress
    /\ other.tokenAddress = OtherAddress
    /\ req.name # other.req.name

\* C34: when the first run of hexadecimal digits after 0x in the deploy
\* output is longer than 40 digits, the first 40 digits of that run are not
\* what the function returns.
C34_NoHashPrefix ==
    pc = "extracted" =>
      LET text == outputs.deployOutput
          Runs == {i \in 1..(Len(text) - 2) :
                      /\ SubSeq(text, i, i + 1) = <<"0","x">>
                      /\ HexChar(text[i + 2])}
          RunEnd(i) ==
              CHOOSE k \in (i + 2)..Len(text) :
                  /\ \A j \in (i + 2)..k : HexChar(text[j])
                  /\ k < Len(text) => ~HexChar(text[k + 1])
      IN  \A i \in Runs :
              (/\ \A j \in Runs : i <= j
               /\ RunEnd(i) - (i + 1) > AddrHexLen)
              => tokenAddress # SubSeq(text, i, i + AddrHexLen + 1)

\* C32: the address extracted from the deploy output is the one token
\* address of the request: the handler's tokenAddress is unset or that
\* address, every activate, cache-bid, init, token code check, pre-check,
\* simulation and register command carries it, and so does the success
\* response.
C32_OneTokenAddress ==
    LET extracted == extractContractAddress(outputs.deployOutput)
    IN  /\ tokenAddress \in {Empty, extracted}
        /\ \A i \in 1..Len(log) :
               log[i].step \in TokenSteps => TokenOf(log[i]) = extracted
        /\ response.status = 200 => response.tokenAddress = extracted

\* a request that went through every step with the second address
C32_Witness ==
    /\ response.status = 200
    /\ response.tokenAddress = OtherAddress
    /\ \A s \in {"activate", "cacheBid", "init", "tokenCheck", "register"} :
          \E i \in 1..Len(log) : log[i].step = s

\* C33: once a registration simulation has failed, the register_token send
\* has been started, once and after the simulation, and when the request has
\* ended it succeeded exactly if that send did.
C33_SimulationNeverBlocks ==
    \A i \in Started("simulate") :
        Seen(i, "failed") =>
            /\ Cardinality(Started("register")) = 1
            /\ \A j \in Started("register") :
                  /\ j > i
                  /\ pc = "done" => (response.status = 200 <=> Seen(j, "ok"))

\* the simulation failed and the send that followed registered the token
C33_Witness ==
    /\ pc = "done"
    /\ response.status = 200
    /\ \E i \in Started("simulate") : Seen(i, "failed")
    /\ \E j \in Started("register") : Seen(j, "ok")

(* Termination, SpecLive. *)

\* C31: when every command that is started completes, the request ends with
\* its response sent.
C31_EventuallyResponds == <>(pc = "done" /\ sent = 1)

\* a request of part_001 that went through the receipt wait after a failed
\* receipt and was answered
C31_Witness ==
    /\ pc = "done"
    /\ sent = 1
    /\ \E i \in Started("receipt") : Seen(i, "failed")
    /\ Started("register") # {}

====
